---- MODULE Spec2Model ----
(***************************************************************************)
(* Model of the WebRTC signaling sessions of bioscopeai-vision-streamer:   *)
(* WebRTCSession (app/webrtc/session.py) and the process-wide RTCManager   *)
(* registry (app/webrtc/rtc_manager.py).                                   *)
(*                                                                         *)
(* Every session is one asyncio task.  A state of the model is a state of  *)
(* the event loop between two steps: each action is the code a task runs   *)
(* from one suspension point (an await that really waits) to the next.     *)
(* The signaling channel (the WebSocket), the client and the aiortc peer   *)
(* connection are the environment: their outcomes are chosen with \E.      *)
(***************************************************************************)
EXTENDS Integers, Sequences, FiniteSets, Bags, TLC

\* The two concurrent clients of the concurrent-sessions scenario.
Sessions == {"s1", "s2"}

\* What the environment does, over all sessions, once the first client has
\* connected: the connections of further clients, the frames the clients
\* deliver, the icecandidate events with a candidate, the changes of
\* connectivity, and the awaited calls that raise (a receive, a send, a
\* close, the setup, an operation of a peer connection).
MaxEvents == 3

\* The calls of build_ice_servers in one process, when the function is
\* looked at by itself.
MaxCalls == 3

VARIABLES
    at,                      \* where each session's task is suspended
    pc,                      \* self.pc: the session's RTCPeerConnection
    closed,                  \* self._closed
    cleanup_done,            \* self._cleanup_done
    ice_gathering_complete,  \* self._ice_gathering_complete (asyncio.Event)
    pcs,                     \* RTCManager._pcs: the registry
    websocket,               \* the signaling channel
    message,                 \* run's message_text / _handle_message's data
    handler,                 \* _handle_message's handler
    exc,                     \* the exception unwinding run, if any
    turn,                    \* what the current loop iteration has done
    log,                     \* what each session has done so far
    manager,                 \* the task running RTCManager.close_all
    environ,                 \* os.environ, as build_ice_servers reads it
    ice_servers_cache,       \* WebRTCSession._ice_servers_cache
    ice_log,                 \* what the calls of build_ice_servers did
    data,                    \* _handle_ice_candidate's data, field by field
    candidate_args           \* the sdp_mid, sdp_m_line_index it passes on

vars == <<at, pc, closed, cleanup_done, ice_gathering_complete, pcs,
          websocket, message, handler, exc, turn, log, manager,
          environ, ice_servers_cache, ice_log, data, candidate_args>>

----------------------------------------------------------------------------
\* Inbound frames.  A frame is a text; the model keeps what the code reads of
\* it: whether it is JSON, whether the JSON value is an object, the value
\* under "type", and what the rest of the object holds.

NonJson == [shape |-> "text", type |-> "-", body |-> "-"]
NonObject == [shape |-> "array", type |-> "-", body |-> "-"]
Obj(t, b) == [shape |-> "object", type |-> t, body |-> b]

\* "sdp": a string sdp; "nosdp": the sdp field is absent.
OfferFrames == {Obj("offer", b) : b \in {"sdp", "nosdp"}}
\* "null": candidate null; "good": a parsable candidate line; "short": a
\* line of 7 tokens; "noprefix": no ":" in the first token; "badcomp",
\* "badprio", "badnum": a component, priority, port that is no integer;
\* "badindex": a good line, but sdp_m_line_index is not an integer.
IceFrames == {Obj("ice-candidate", b) :
                 b \in {"null", "good", "short", "noprefix", "badcomp",
                        "badprio", "badnum", "badindex"}}
\* "missing": no type key; "other": a string no message has; "list": a JSON
\* array as the type value; "int": a JSON number as the type value.
PlainFrames == {Obj(t, "none") :
                   t \in {"bye", "ping", "pong", "answer", "other",
                          "missing", "list", "int"}}

Frames == {NonJson, NonObject} \cup OfferFrames \cup IceFrames \cup PlainFrames
NoMessage == [shape |-> "none", type |-> "-", body |-> "-"]

\* Outbound frames.  What an icecandidate event carries: event.candidate is
\* None, or has a candidate line, an sdpMid and an sdpMLineIndex.
NullCandidate == [candidate |-> "-", sdpMid |-> "-", sdpMLineIndex |-> "-"]
Candidates ==
    {[candidate |-> "candidate:1", sdpMid |-> "0", sdpMLineIndex |-> "0"],
     [candidate |-> "candidate:2", sdpMid |-> "video",
      sdpMLineIndex |-> "1"]}

\* model_dump() of AnswerMessage, PongMessage and IceCandidateMessage: the
\* frame has the type, and for a candidate c the fields candidate, sdp_mid
\* and sdp_m_line_index filled from c.
OutFrame(type, c) ==
    [type |-> type, candidate |-> c.candidate, sdp_mid |-> c.sdpMid,
     sdp_m_line_index |-> c.sdpMLineIndex]

\* self._message_handlers
MessageHandlers == {"offer", "ice-candidate", "bye", "ping"}

\* Exceptions.  ValidationError is pydantic's, a ValueError.
Caught == {"OSError", "ValueError", "ValidationError"}
\* What an operation of the peer connection raises: an error run catches, or
\* one it does not.
PeerErrors == {"OSError", "InvalidStateError"}
Exceptions == Caught \cup PeerErrors \cup
              {"WebSocketDisconnect", "AttributeError", "TypeError",
               "SetupError", "TimeoutError"}

NoPc == [exists |-> FALSE, connectionState |-> "new",
         iceConnectionState |-> "new", iceGatheringState |-> "new",
         remoteDescription |-> FALSE, localDescription |-> FALSE]

\* The peer connection once close() has returned.
ClosedPc(p) ==
    [p EXCEPT !.connectionState = "closed", !.iceConnectionState = "closed"]

\* What the log lines of a session add up to: pc_close and ws_close count
\* the close calls cleanup made, candidates the icecandidate events, bye
\* tells whether _handle_bye returned and send_failed whether a send_text
\* raised; connectivity and faults count the changes of connectivity and
\* the failures of the environment.
NoLog == [send_failed |-> FALSE, pc_close |-> 0, ws_close |-> 0,
          candidates |-> 0, connectivity |-> 0, faults |-> 0, bye |-> FALSE]

\* What the log lines of one loop iteration add up to: negotiated tells
\* whether the remote and the local description were set for its offer,
\* answer_sends counts the answer frames handed to send_text.
NoTurn == [negotiated |-> FALSE, answer_sends |-> 0]

\* close_all: at is "idle" before the call, "gather" while it awaits
\* asyncio.gather and "done" once it has returned; pending holds the members
\* whose close() coroutine has not finished, closed those whose close()
\* returned and raised those whose close() raised into the gather.
NoManager == [at |-> "idle", pending |-> {}, closed |-> {}, raised |-> {}]

Places == {"created", "recv", "loop", "set_remote", "create_answer",
           "set_local", "ice_wait", "send_answer", "send_pong",
           "add_candidate", "pc_close", "ws_close", "returned", "raised"}

----------------------------------------------------------------------------
\* build_ice_servers.  A string is a sequence of symbols, "," being the one
\* str.split(",") cuts at.  A variable of the environment is unset, or set
\* to a string.

Unset == [set |-> FALSE, value |-> <<>>]
Str(v) == [set |-> TRUE, value |-> v]

Modes == {Unset, Str(<<"dev">>), Str(<<"prod">>)}
TurnUrls == {Unset, Str(<<>>), Str(<<"turn:a">>),
             Str(<<"turn:a", ",", "turn:b">>)}
TurnNames == {Unset, Str(<<>>), Str(<<"user">>)}
TurnPasswords == {Unset, Str(<<>>), Str(<<"pass">>)}

Environs ==
    [WEBRTC_ICE_MODE : Modes, TURN_URLS : TurnUrls,
     TURN_USERNAME : TurnNames, TURN_CREDENTIAL : TurnPasswords]

\* The environment of a deployment that sets none of the four variables.
NoEnviron ==
    [WEBRTC_ICE_MODE |-> Unset, TURN_URLS |-> Unset,
     TURN_USERNAME |-> Unset, TURN_CREDENTIAL |-> Unset]

\* os.getenv(name, default) as a string; os.getenv(name) of an unset
\* variable is None, which is as false as the empty string.
getenv(env, name, default) ==
    IF env[name].set THEN env[name].value ELSE default
Truthy(v) == v.set /\ v.value # <<>>

\* str.split(sep): the pieces between the separators; the empty string
\* gives one empty piece.
RECURSIVE split(_, _)
split(str, sep) ==
    IF \A i \in 1..Len(str) : str[i] # sep
      THEN <<str>>
      ELSE LET i == CHOOSE k \in 1..Len(str) :
                       /\ str[k] = sep
                       /\ \A j \in 1..(k - 1) : str[j] # sep
           IN  <<SubSeq(str, 1, i - 1)>>
                 \o split(SubSeq(str, i + 1, Len(str)), sep)

\* RTCIceServer(urls, username, credential); no username is <<>>.
RTCIceServer(urls, username, credential) ==
    [urls |-> urls, username |-> username, credential |-> credential]
StunServer == RTCIceServer(<< <<"stun:stun.l.google.com:19302">> >>, <<>>, <<>>)
DevServer ==
    RTCIceServer(<< <<"turn:turn:3478?transport=tcp">> >>, <<"dev">>,
                 <<"devpass">>)

\* The list of the prod branch: the STUN server, and the TURN descriptor
\* when turn_urls, turn_user and turn_pass are all true.  turn_urls is a
\* list, true when it has a piece.
ProdServers(env) ==
    LET turn_urls == split(getenv(env, "TURN_URLS", <<>>), ",")
    IN  IF Len(turn_urls) > 0 /\ Truthy(env.TURN_USERNAME)
           /\ Truthy(env.TURN_CREDENTIAL)
          THEN <<StunServer,
                 RTCIceServer(turn_urls, env.TURN_USERNAME.value,
                              env.TURN_CREDENTIAL.value)>>
          ELSE <<StunServer>>

\* The list build_ice_servers constructs when the cache is empty.
FreshServers(env) ==
    IF getenv(env, "WEBRTC_ICE_MODE", <<"prod">>) = <<"dev">>
      THEN <<DevServer>>
      ELSE ProdServers(env)

\* os.getenv calls of one construction: the mode, and in the prod branch
\* the three TURN variables.
EnvReads(env) ==
    IF getenv(env, "WEBRTC_ICE_MODE", <<"prod">>) = <<"dev">> THEN 1 ELSE 4

\* The cache: id 0 is None, a list constructed by the n-th construction has
\* id n (the identity of the list object).
NoCache == [id |-> 0, servers |-> <<>>]
NoIceLog == [calls |-> 0, constructed |-> 0, env_reads |-> 0, result |-> 0]

\* Mutant: build_ice_servers constructs the list at every call.
build_ice_servers_uncached(cache, env, n) ==
    [id |-> n + 1, servers |-> FreshServers(env)]

\* build_ice_servers: the cache after the call, which is what the call
\* returns; n is the number of lists constructed so far.
build_ice_servers(cache, env, n) ==
    IF cache.id # 0
      THEN cache
      ELSE [id |-> n + 1, servers |-> FreshServers(env)]

\* A call of build_ice_servers.
BuildCall ==
    LET servers ==
            build_ice_servers(ice_servers_cache, environ, ice_log.constructed)
        built == servers.id # ice_servers_cache.id
    IN  /\ ice_servers_cache' = servers
        /\ ice_log' = [calls |-> ice_log.calls + 1,
                       constructed |->
                           ice_log.constructed + (IF built THEN 1 ELSE 0),
                       env_reads |->
                           ice_log.env_reads
                             + (IF built THEN EnvReads(environ) ELSE 0),
                       result |-> servers.id]

----------------------------------------------------------------------------
\* The sdp_mid and sdp_m_line_index of an inbound candidate.  A JSON value
\* is a kind and a text; a number is held as its numeral.  Absent marks a
\* key the object does not have.

Absent == [kind |-> "absent", v |-> "-"]
None == [kind |-> "none", v |-> "-"]
Text(v) == [kind |-> "str", v |-> v]
Number(v) == [kind |-> "int", v |-> v]

\* The objects a client sends: each of the four keys absent or holding a
\* value its field accepts.
Datas ==
    [sdp_mid : {Absent, None, Text(""), Text("0")},
     sdpMid : {Absent, Text(""), Text("video")},
     sdp_m_line_index : {Absent, None, Number("0"), Number("1")},
     sdpMLineIndex : {Absent, Number("0"), Number("2")}]

\* The object without any of the four keys.
NoData ==
    [sdp_mid |-> Absent, sdpMid |-> Absent, sdp_m_line_index |-> Absent,
     sdpMLineIndex |-> Absent]

\* Nothing passed on yet.
NoArgs == [sdp_mid |-> Absent, sdp_m_line_index |-> Absent]

\* dict.get(key): None for a key the object does not have.
get(d, key) == IF d[key] = Absent THEN None ELSE d[key]

\* IceCandidateMessage(**data): the two fields are read from their own
\* keys and default to None; the keys sdpMid and sdpMLineIndex are no
\* fields of the schema and are ignored.
IceCandidateMessage(d) ==
    [sdp_mid |-> get(d, "sdp_mid"),
     sdp_m_line_index |-> get(d, "sdp_m_line_index")]

\* Python's truth value: None, the empty string and 0 are false.
bool(x) ==
    \/ x.kind = "str" /\ x.v # ""
    \/ x.kind = "int" /\ x.v # "0"

\* a or b
Or(a, b) == IF bool(a) THEN a ELSE b

\* What _handle_ice_candidate passes to _parse_ice_candidate.
select_candidate_args(d) ==
    LET ice_msg == IceCandidateMessage(d)
    IN  [sdp_mid |->
             Or(ice_msg.sdp_mid, Or(get(d, "sdpMid"), get(d, "sdp_mid"))),
         sdp_m_line_index |->
             Or(ice_msg.sdp_m_line_index,
                Or(get(d, "sdpMLineIndex"), get(d, "sdp_m_line_index")))]

TypeOK ==
    /\ at \in [Sessions -> Places]
    /\ closed \in [Sessions -> BOOLEAN]
    /\ cleanup_done \in [Sessions -> BOOLEAN]
    /\ ice_gathering_complete \in [Sessions -> BOOLEAN]
    /\ pcs \subseteq Sessions
    /\ \A s \in Sessions :
          /\ message[s] \in Frames \cup {NoMessage}
          /\ handler[s] \in MessageHandlers \cup {"none"}
          /\ exc[s] \in Exceptions \cup {"none"}
          /\ websocket[s].state \in {"pending", "open", "closed"}
          /\ websocket[s].received \in 0..MaxEvents
    /\ manager.at \in {"idle", "gather", "done"}
    /\ manager.pending \subseteq Sessions
    /\ manager.closed \subseteq Sessions
    /\ manager.raised \subseteq Sessions
    /\ environ \in Environs
    /\ ice_servers_cache.id \in 0..(MaxCalls + Cardinality(Sessions))
    /\ ice_log.calls \in 0..(MaxCalls + Cardinality(Sessions))
    /\ data \in Datas
    /\ candidate_args.sdp_mid.kind \in {"absent", "none", "str"}
    /\ candidate_args.sdp_m_line_index.kind \in {"absent", "none", "int"}

\* The process before any connection: no session has run, the registry and
\* the cache are empty.
Started ==
    /\ at = [s \in Sessions |-> "created"]
    /\ pc = [s \in Sessions |-> NoPc]
    /\ closed = [s \in Sessions |-> FALSE]
    /\ cleanup_done = [s \in Sessions |-> FALSE]
    /\ ice_gathering_complete = [s \in Sessions |-> FALSE]
    /\ pcs = {}
    /\ websocket = [s \in Sessions |->
                      [state |-> "pending", received |-> 0,
                       written |-> EmptyBag]]
    /\ message = [s \in Sessions |-> NoMessage]
    /\ handler = [s \in Sessions |-> "none"]
    /\ exc = [s \in Sessions |-> "none"]
    /\ turn = [s \in Sessions |-> NoTurn]
    /\ log = [s \in Sessions |-> NoLog]
    /\ manager = NoManager
    /\ ice_servers_cache = NoCache
    /\ ice_log = NoIceLog
    /\ candidate_args = NoArgs

Init == Started /\ environ = NoEnviron /\ data = NoData

----------------------------------------------------------------------------
\* The environment's budget: the frames delivered, the candidates emitted,
\* the changes of connectivity and the failures so far, over all sessions.

RECURSIVE Total(_, _)
Total(count, S) ==
    IF S = {} THEN 0
    ELSE LET s == CHOOSE x \in S : TRUE
         IN  count[s] + Total(count, S \ {s})

FramesDelivered == Total([s \in Sessions |-> websocket[s].received], Sessions)
CandidatesEmitted == Total([s \in Sessions |-> log[s].candidates], Sessions)
ConnectivityChanges ==
    Total([s \in Sessions |-> log[s].connectivity], Sessions)
Faults == Total([s \in Sessions |-> log[s].faults], Sessions)

\* close_all is called at most once, when the process shuts down.
CloseAllCalls == IF manager.at = "idle" THEN 0 ELSE 1

\* The clients that have connected; each one after the first is an event.
Connections == Cardinality({s \in Sessions : at[s] # "created"})
FurtherConnections == IF Connections > 1 THEN Connections - 1 ELSE 0

Events == FramesDelivered + CandidatesEmitted + ConnectivityChanges + Faults
          + CloseAllCalls + FurtherConnections

\* The environment may act once more, may fail once more.
MayAct == Events < MaxEvents
MayFail == MayAct
\* log, with one more failure of the environment counted when failed.
Fault(s, failed) == [log EXCEPT ![s].faults = IF failed THEN @ + 1 ELSE @]

----------------------------------------------------------------------------
\* RTCManager

register(reg, s) == reg \cup {s}

\* The body of the coroutine RTCManager.unregister, as it changes the set.
unregister(reg, s) == reg \ {s}

\* _cleanup calls rtc_manager.unregister(self.pc) without await: the call
\* makes a coroutine object that is never scheduled, so its body never runs.
UnregisterCall(reg, s, awaited) == IF awaited THEN unregister(reg, s) ELSE reg

----------------------------------------------------------------------------
\* Control: where the task goes next.  Goto sets at, exc, cleanup_done and
\* pcs; Continue and EnterCleanup set the locals message and handler too.
\* Neither sets turn.

Goto(s, place) ==
    /\ at' = [at EXCEPT ![s] = place]
    /\ UNCHANGED <<exc, cleanup_done, pcs>>

Continue(s, place) ==
    /\ Goto(s, place)
    /\ UNCHANGED <<message, handler>>

\* Where run ends once _cleanup has returned: the except clause of run has
\* swallowed an OSError or ValueError, anything else leaves run.
Finish(e) == IF e \in Caught \cup {"none"} THEN "returned" ELSE "raised"

\* The loop of run is left, normally (e = "none") or by exception e: the
\* except and finally clauses of run, and _cleanup up to its first await.
EnterCleanup(s, e) ==
    /\ exc' = [exc EXCEPT ![s] = e]
    /\ message' = [message EXCEPT ![s] = NoMessage]
    /\ handler' = [handler EXCEPT ![s] = "none"]
    /\ cleanup_done' = [cleanup_done EXCEPT ![s] = TRUE]
    /\ IF cleanup_done[s]
         THEN /\ at' = [at EXCEPT ![s] = Finish(e)]
              /\ pcs' = pcs
         ELSE IF pc[s].exists
                   /\ pc[s].connectionState \notin {"closed", "failed"}
                THEN /\ at' = [at EXCEPT ![s] = "pc_close"]
                     /\ pcs' = pcs
                ELSE /\ at' = [at EXCEPT ![s] = "ws_close"]
                     /\ pcs' = IF pc[s].exists
                                 THEN UnregisterCall(pcs, s, FALSE)
                                 ELSE pcs

\* send_text raises on a channel that is closed, and when the environment
\* makes it fail (~ok).
SendFails(s, ok) == ~ok \/ websocket[s].state # "open"

\* Mutant: the except clause of _send_json logs and leaves _closed alone.
send_json_flag_unset(s, frame, ok) ==
    /\ ok \/ MayFail
    /\ websocket' = IF SendFails(s, ok)
                      THEN websocket
                      ELSE [websocket EXCEPT
                              ![s].written = @ (+) SetToBag({frame})]
    /\ closed' = closed

\* _send_json: send_text succeeds or raises; a raise sets _closed.
send_json(s, frame, ok) ==
    /\ ok \/ MayFail
    /\ websocket' = IF SendFails(s, ok)
                      THEN websocket
                      ELSE [websocket EXCEPT
                              ![s].written = @ (+) SetToBag({frame})]
    /\ closed' = IF SendFails(s, ok)
                   THEN [closed EXCEPT ![s] = TRUE]
                   ELSE closed

\* log, with the outcome of that send_text.
Sent(s, ok) ==
    [Fault(s, ~ok) EXCEPT ![s].send_failed = @ \/ SendFails(s, ok)]

----------------------------------------------------------------------------
\* run, up to the receive loop: accept, build and register the peer
\* connection, attach the handlers, add the track.  With ok = FALSE the
\* track factory (or addTrack) raises, outside the try of run.
Run(s, ok) ==
    /\ at[s] = "created"
    /\ Connections = 0 \/ MayAct
    /\ ok \/ IF Connections = 0 THEN MayFail ELSE Events + 1 < MaxEvents
    /\ log' = Fault(s, ~ok)
    /\ websocket' = [websocket EXCEPT ![s].state = "open"]
    /\ pc' = [pc EXCEPT ![s] = [NoPc EXCEPT !.exists = TRUE]]
    /\ pcs' = register(pcs, s)
    /\ at' = [at EXCEPT ![s] = IF ok THEN "recv" ELSE "raised"]
    /\ exc' = [exc EXCEPT ![s] = IF ok THEN "none" ELSE "SetupError"]
    /\ BuildCall
    /\ UNCHANGED <<closed, cleanup_done, ice_gathering_complete, message,
                   handler, turn>>
    /\ UNCHANGED <<manager, environ>>
    /\ UNCHANGED <<data, candidate_args>>

----------------------------------------------------------------------------
\* The handlers, from the dispatch to their first await.
\* Mutant: the dispatch table answers a pong of the client like a ping.
HandlerFor_pong(type) ==
    IF type = "pong" THEN "ping"
    ELSE IF type \in MessageHandlers THEN type ELSE "none"

\* self._message_handlers.get(msg_type)
HandlerFor(type) == IF type \in MessageHandlers THEN type ELSE "none"

\* Each handler sets the control variables, closed and log; Dispatch keeps
\* the frame and the handler in the locals while the handler runs.
Dispatch(s, f, place) ==
    /\ Goto(s, place)
    /\ message' = [message EXCEPT ![s] = f]
    /\ handler' = [handler EXCEPT ![s] =
                      IF f.shape = "object" THEN HandlerFor(f.type) ELSE "none"]

handle_offer(s, f) ==
    /\ UNCHANGED <<closed, log>>
    /\ IF ~pc[s].exists
         THEN Dispatch(s, f, "loop")
         ELSE IF f.body = "nosdp"
                THEN EnterCleanup(s, "ValidationError")
                ELSE Dispatch(s, f, "set_remote")

\* Candidate lines, symbol by symbol; " " is the white space.
GoodLine ==
    <<"candidate", ":", "1", " ", "1", " ", "udp", " ", "2130706431", " ",
      "192.0.2.1", " ", "54321", " ", "typ", " ", "host">>

CandidateLine(body) ==
    CASE body = "short" -> SubSeq(GoodLine, 1, Len(GoodLine) - 2)
      [] body = "noprefix" ->
             <<"candidate1">> \o SubSeq(GoodLine, 4, Len(GoodLine))
      [] body = "badcomp" -> [GoodLine EXCEPT ![5] = "x"]
      [] body = "badprio" -> [GoodLine EXCEPT ![9] = "x"]
      [] body = "badnum" -> [GoodLine EXCEPT ![13] = "x"]
      [] OTHER -> GoodLine

\* str.split(): the pieces between the white space, none of them empty.
split_whitespace(str) == SelectSeq(split(str, " "), LAMBDA piece : piece # <<>>)

\* int(token) returns for a numeral, and raises ValueError otherwise.
Numerals == {"0", "1", "2130706431", "54321"}
IsInt(token) == Len(token) = 1 /\ token[1] \in Numerals

MIN_CANDIDATE_PARTS == 8

\* Mutant: _parse_ice_candidate checks the number of tokens only.
parse_ice_candidate_length_only(candidate_str) ==
    Len(split_whitespace(candidate_str)) >= MIN_CANDIDATE_PARTS

\* _parse_ice_candidate returns a candidate (TRUE) or None (FALSE): None for
\* fewer than MIN_CANDIDATE_PARTS tokens, and None when parts[0].split(":")
\* has no second piece (IndexError) or int() refuses the component, the
\* priority or the port (ValueError).
parse_ice_candidate(candidate_str) ==
    LET parts == split_whitespace(candidate_str)
    IN  IF Len(parts) < MIN_CANDIDATE_PARTS
          THEN FALSE
          ELSE /\ Len(split(parts[1], ":")) >= 2
               /\ IsInt(parts[2])
               /\ IsInt(parts[4])
               /\ IsInt(parts[6])

\* Mutant: _handle_ice_candidate does not look at iceConnectionState.
handle_ice_candidate_any_state(s, f) ==
    /\ UNCHANGED <<closed, log>>
    /\ IF ~pc[s].exists
         THEN Dispatch(s, f, "loop")
         ELSE IF f.body = "badindex"
                THEN EnterCleanup(s, "ValidationError")
                ELSE IF f.body = "null"
                       THEN Dispatch(s, f, "add_candidate")
                       ELSE IF parse_ice_candidate(CandidateLine(f.body))
                              THEN Dispatch(s, f, "add_candidate")
                              ELSE Dispatch(s, f, "loop")

handle_ice_candidate(s, f) ==
    /\ UNCHANGED <<closed, log>>
    /\ IF ~pc[s].exists
         THEN Dispatch(s, f, "loop")
         ELSE IF pc[s].iceConnectionState
                    \in {"closed", "failed", "disconnected"}
                THEN Dispatch(s, f, "loop")
                ELSE IF f.body = "badindex"
                       THEN EnterCleanup(s, "ValidationError")
                       ELSE IF f.body = "null"
                              THEN Dispatch(s, f, "add_candidate")
                              ELSE IF parse_ice_candidate(
                                          CandidateLine(f.body))
                                     THEN Dispatch(s, f, "add_candidate")
                                     ELSE Dispatch(s, f, "loop")

\* Mutant: _handle_bye logs the bye and leaves _closed alone.
handle_bye_flag_unset(s, f) ==
    /\ closed' = closed
    /\ log' = [log EXCEPT ![s].bye = TRUE]
    /\ Dispatch(s, f, "loop")

handle_bye(s, f) ==
    /\ closed' = [closed EXCEPT ![s] = TRUE]
    /\ log' = [log EXCEPT ![s].bye = TRUE]
    /\ Dispatch(s, f, "loop")

handle_ping(s, f) ==
    /\ UNCHANGED <<closed, log>>
    /\ Dispatch(s, f, "send_pong")

\* _handle_message, up to the first await of the handler it calls.
handle_message(s, f) ==
    IF f.shape = "text"
      THEN \* json.JSONDecodeError: warning, return
           /\ Dispatch(s, f, "loop")
           /\ UNCHANGED <<closed, log>>
      ELSE IF f.shape = "array"
             THEN \* data.get on a value that is no dict
                  /\ EnterCleanup(s, "AttributeError")
                  /\ UNCHANGED <<closed, log>>
             ELSE IF f.type = "list"
                    THEN \* dict.get with an unhashable key
                         /\ EnterCleanup(s, "TypeError")
                         /\ UNCHANGED <<closed, log>>
                    ELSE CASE HandlerFor(f.type) = "offer" ->
                                 handle_offer(s, f)
                           [] HandlerFor(f.type) = "ice-candidate" ->
                                 handle_ice_candidate(s, f)
                           [] HandlerFor(f.type) = "bye" ->
                                 handle_bye(s, f)
                           [] HandlerFor(f.type) = "ping" ->
                                 handle_ping(s, f)
                           [] OTHER ->
                                 \* warning: unsupported type
                                 /\ Dispatch(s, f, "loop")
                                 /\ UNCHANGED <<closed, log>>

\* Mutant: run takes the next frame while _handle_offer still waits for
\* the gathering.
Receive_while_waiting(s, f) ==
    /\ at[s] \in {"recv", "ice_wait"}
    /\ MayAct
    /\ websocket' = [websocket EXCEPT ![s].received = @ + 1]
    /\ handle_message(s, f)
    /\ UNCHANGED <<pc, ice_gathering_complete, turn>>
    /\ UNCHANGED <<manager, environ, ice_servers_cache, ice_log>>
    /\ UNCHANGED <<data, candidate_args>>

\* receive_text returns the next frame of the client, and _handle_message
\* dispatches it.
Receive(s, f) ==
    /\ at[s] = "recv"
    /\ MayAct
    /\ websocket' = [websocket EXCEPT ![s].received = @ + 1]
    /\ handle_message(s, f)
    /\ UNCHANGED <<pc, ice_gathering_complete, turn>>
    /\ UNCHANGED <<manager, environ, ice_servers_cache, ice_log>>
    /\ UNCHANGED <<data, candidate_args>>

\* receive_text raises: an I/O error, or the client has gone.
ReceiveError(s, e) ==
    /\ at[s] = "recv"
    /\ MayFail
    /\ log' = Fault(s, TRUE)
    /\ EnterCleanup(s, e)
    /\ UNCHANGED <<pc, closed, ice_gathering_complete, websocket, turn>>
    /\ UNCHANGED <<manager, environ, ice_servers_cache, ice_log>>
    /\ UNCHANGED <<data, candidate_args>>

\* The head of the loop of run: while not self._closed.
LoopCheck(s) ==
    /\ at[s] = "loop"
    /\ IF closed[s]
         THEN EnterCleanup(s, "none")
         ELSE /\ Goto(s, "recv")
              /\ message' = [message EXCEPT ![s] = NoMessage]
              /\ handler' = [handler EXCEPT ![s] = "none"]
    /\ turn' = [turn EXCEPT ![s] = NoTurn]
    /\ UNCHANGED <<pc, closed, ice_gathering_complete, websocket, log>>
    /\ UNCHANGED <<manager, environ, ice_servers_cache, ice_log>>
    /\ UNCHANGED <<data, candidate_args>>

----------------------------------------------------------------------------
\* _handle_offer, from await to await.  r is "ok" or the exception the peer
\* connection raises.

\* A peer connection that has been closed refuses the operation with an
\* InvalidStateError; one that is not closed carries it out, or fails when
\* the environment makes it fail.
PeerCall(s, r) ==
    IF pc[s].connectionState = "closed"
      THEN r = "InvalidStateError"
      ELSE r = "ok" \/ MayFail

\* log after that call: a refusal by a closed peer connection is no failure
\* of the environment.
PeerFault(s, r) ==
    Fault(s, r # "ok" /\ pc[s].connectionState # "closed")

SetRemoteDescription(s, r) ==
    /\ at[s] = "set_remote"
    /\ PeerCall(s, r)
    /\ log' = PeerFault(s, r)
    /\ IF r = "ok"
         THEN /\ pc' = [pc EXCEPT ![s].remoteDescription = TRUE]
              /\ Continue(s, "create_answer")
         ELSE /\ pc' = pc
              /\ EnterCleanup(s, r)
    /\ UNCHANGED <<closed, ice_gathering_complete, websocket, turn>>
    /\ UNCHANGED <<manager, environ, ice_servers_cache, ice_log>>
    /\ UNCHANGED <<data, candidate_args>>

CreateAnswer(s, r) ==
    /\ at[s] = "create_answer"
    /\ PeerCall(s, r)
    /\ log' = PeerFault(s, r)
    /\ IF r = "ok" THEN Continue(s, "set_local") ELSE EnterCleanup(s, r)
    /\ UNCHANGED <<pc, closed, ice_gathering_complete, websocket, turn>>
    /\ UNCHANGED <<manager, environ, ice_servers_cache, ice_log>>
    /\ UNCHANGED <<data, candidate_args>>

\* _wait_for_ice_gathering, up to its await: nothing to wait for without a
\* peer connection or once gathering is complete.
WaitPlace(p) ==
    IF ~p.exists \/ p.iceGatheringState = "complete"
      THEN "send_answer"
      ELSE "ice_wait"

\* Mutant: _handle_offer logs a failure of setLocalDescription and goes on
\* to the answer.
SetLocalDescription_swallowed(s, r, gathered) ==
    /\ at[s] = "set_local"
    /\ PeerCall(s, r)
    /\ log' = PeerFault(s, r)
    /\ IF r = "ok"
         THEN LET done == gathered \/ pc[s].iceGatheringState = "complete"
                  p == [pc[s] EXCEPT
                          !.localDescription = TRUE,
                          !.iceGatheringState =
                              IF done THEN "complete" ELSE "gathering"]
              IN  /\ pc' = [pc EXCEPT ![s] = p]
                  /\ ice_gathering_complete' =
                        [ice_gathering_complete EXCEPT ![s] = @ \/ done]
                  /\ turn' = [turn EXCEPT ![s].negotiated = TRUE]
                  /\ Continue(s, WaitPlace(p))
         ELSE /\ Continue(s, "send_answer")
              /\ UNCHANGED <<pc, ice_gathering_complete, turn>>
    /\ UNCHANGED <<closed, websocket>>
    /\ UNCHANGED <<manager, environ, ice_servers_cache, ice_log>>
    /\ UNCHANGED <<data, candidate_args>>

\* setLocalDescription starts ICE gathering, which may finish (gathered)
\* before the call returns; on_icegatheringstatechange then sets the latch.
SetLocalDescription(s, r, gathered) ==
    /\ at[s] = "set_local"
    /\ PeerCall(s, r)
    /\ log' = PeerFault(s, r)
    /\ IF r = "ok"
         THEN LET done == gathered \/ pc[s].iceGatheringState = "complete"
                  p == [pc[s] EXCEPT
                          !.localDescription = TRUE,
                          !.iceGatheringState =
                              IF done THEN "complete" ELSE "gathering"]
              IN  /\ pc' = [pc EXCEPT ![s] = p]
                  /\ ice_gathering_complete' =
                        [ice_gathering_complete EXCEPT ![s] = @ \/ done]
                  /\ turn' = [turn EXCEPT ![s].negotiated = TRUE]
                  /\ Continue(s, WaitPlace(p))
         ELSE /\ EnterCleanup(s, r)
              /\ UNCHANGED <<pc, ice_gathering_complete, turn>>
    /\ UNCHANGED <<closed, websocket>>
    /\ UNCHANGED <<manager, environ, ice_servers_cache, ice_log>>
    /\ UNCHANGED <<data, candidate_args>>

\* asyncio.wait_for returns: the latch is set.
IceGatheringWaitDone(s) ==
    /\ at[s] = "ice_wait"
    /\ ice_gathering_complete[s]
    /\ Continue(s, "send_answer")
    /\ UNCHANGED <<pc, closed, ice_gathering_complete, websocket, turn, log>>
    /\ UNCHANGED <<manager, environ, ice_servers_cache, ice_log>>
    /\ UNCHANGED <<data, candidate_args>>

\* Mutant: the TimeoutError of asyncio.wait_for is not caught.
IceGatheringTimeout_raised(s) ==
    /\ at[s] = "ice_wait"
    /\ ~ice_gathering_complete[s]
    /\ EnterCleanup(s, "TimeoutError")
    /\ UNCHANGED <<pc, closed, ice_gathering_complete, websocket, turn, log>>
    /\ UNCHANGED <<manager, environ, ice_servers_cache, ice_log>>
    /\ UNCHANGED <<data, candidate_args>>

\* asyncio.wait_for raises TimeoutError after ICE_GATHERING_TIMEOUT: a
\* warning, and _handle_offer goes on.
IceGatheringTimeout(s) ==
    /\ at[s] = "ice_wait"
    /\ ~ice_gathering_complete[s]
    /\ Continue(s, "send_answer")
    /\ UNCHANGED <<pc, closed, ice_gathering_complete, websocket, turn, log>>
    /\ UNCHANGED <<manager, environ, ice_servers_cache, ice_log>>
    /\ UNCHANGED <<data, candidate_args>>

SendAnswer(s, ok) ==
    /\ at[s] = "send_answer"
    /\ send_json(s, OutFrame("answer", NullCandidate), ok)
    /\ turn' = [turn EXCEPT ![s].answer_sends = @ + 1]
    /\ log' = Sent(s, ok)
    /\ Continue(s, "loop")
    /\ UNCHANGED <<pc, ice_gathering_complete>>
    /\ UNCHANGED <<manager, environ, ice_servers_cache, ice_log>>
    /\ UNCHANGED <<data, candidate_args>>

\* Mutant: _handle_ping sends the pong, and sends it again.
SendPong_twice(s, ok) ==
    /\ at[s] = "send_pong"
    /\ ok \/ MayFail
    /\ websocket' = IF SendFails(s, ok)
                      THEN websocket
                      ELSE [websocket EXCEPT
                              ![s].written = @ (+)
                                  SetToBag({OutFrame("pong", NullCandidate)})
                                  (+)
                                  SetToBag({OutFrame("pong", NullCandidate)})]
    /\ closed' = IF SendFails(s, ok)
                   THEN [closed EXCEPT ![s] = TRUE]
                   ELSE closed
    /\ log' = Sent(s, ok)
    /\ Continue(s, "loop")
    /\ UNCHANGED <<pc, ice_gathering_complete, turn>>
    /\ UNCHANGED <<manager, environ, ice_servers_cache, ice_log>>
    /\ UNCHANGED <<data, candidate_args>>

\* _handle_ping
SendPong(s, ok) ==
    /\ at[s] = "send_pong"
    /\ send_json(s, OutFrame("pong", NullCandidate), ok)
    /\ log' = Sent(s, ok)
    /\ Continue(s, "loop")
    /\ UNCHANGED <<pc, ice_gathering_complete, turn>>
    /\ UNCHANGED <<manager, environ, ice_servers_cache, ice_log>>
    /\ UNCHANGED <<data, candidate_args>>

\* _handle_ice_candidate: addIceCandidate returns or raises; a raise is
\* logged and the handler returns.
AddIceCandidate(s, ok) ==
    /\ at[s] = "add_candidate"
    /\ ok \/ MayFail
    /\ log' = Fault(s, ~ok)
    /\ Continue(s, "loop")
    /\ UNCHANGED <<pc, closed, ice_gathering_complete, websocket, turn>>
    /\ UNCHANGED <<manager, environ, ice_servers_cache, ice_log>>
    /\ UNCHANGED <<data, candidate_args>>

----------------------------------------------------------------------------
\* _cleanup, from await to await.

\* pc.close() returns, or raises an OSError that is logged.
PcClose(s, ok) ==
    /\ at[s] = "pc_close"
    /\ ok \/ MayFail
    /\ pc' = IF ok THEN [pc EXCEPT ![s] = ClosedPc(@)] ELSE pc
    /\ log' = [Fault(s, ~ok) EXCEPT ![s].pc_close = @ + 1]
    /\ pcs' = UnregisterCall(pcs, s, FALSE)
    /\ at' = [at EXCEPT ![s] = "ws_close"]
    /\ UNCHANGED <<closed, cleanup_done, ice_gathering_complete, websocket,
                   message, handler, exc, turn>>
    /\ UNCHANGED <<manager, environ, ice_servers_cache, ice_log>>
    /\ UNCHANGED <<data, candidate_args>>

\* websocket.close() returns, or raises an OSError that is suppressed; run
\* then returns or lets the exception out.
WsClose(s, ok) ==
    /\ at[s] = "ws_close"
    /\ ok \/ MayFail
    /\ websocket' = [websocket EXCEPT ![s].state = "closed"]
    /\ log' = [Fault(s, ~ok) EXCEPT ![s].ws_close = @ + 1]
    /\ at' = [at EXCEPT ![s] = Finish(exc[s])]
    /\ UNCHANGED <<pc, closed, cleanup_done, ice_gathering_complete, pcs,
                   message, handler, exc, turn>>
    /\ UNCHANGED <<manager, environ, ice_servers_cache, ice_log>>
    /\ UNCHANGED <<data, candidate_args>>

----------------------------------------------------------------------------
\* RTCManager.close_all, from await to await.

\* close_all is called: one close() coroutine per member of _pcs goes to
\* asyncio.gather.  With no member the gather is done at once, and the set
\* is cleared without a suspension.
CloseAll ==
    /\ manager.at = "idle"
    /\ MayAct
    /\ manager' = IF pcs = {}
                    THEN [manager EXCEPT !.at = "done"]
                    ELSE [manager EXCEPT !.at = "gather", !.pending = pcs]
    /\ UNCHANGED <<at, pc, closed, cleanup_done, ice_gathering_complete, pcs,
                   websocket, message, handler, exc, turn, log>>
    /\ UNCHANGED <<environ, ice_servers_cache, ice_log>>
    /\ UNCHANGED <<data, candidate_args>>

\* Mutant: the gather is called without return_exceptions, and the first
\* close() that raises takes close_all down before the set is cleared.
CloseAllClose_escapes(s, ok) ==
    /\ manager.at = "gather"
    /\ s \in manager.pending
    /\ ok \/ MayFail
    /\ pc' = IF ok THEN [pc EXCEPT ![s] = ClosedPc(@)] ELSE pc
    /\ log' = Fault(s, ~ok)
    /\ manager' = IF ok
                    THEN [manager EXCEPT !.pending = @ \ {s},
                                         !.closed = @ \cup {s}]
                    ELSE [manager EXCEPT !.at = "done",
                                         !.raised = @ \cup {s}]
    /\ UNCHANGED <<at, closed, cleanup_done, ice_gathering_complete, pcs,
                   websocket, message, handler, exc, turn>>
    /\ UNCHANGED <<environ, ice_servers_cache, ice_log>>
    /\ UNCHANGED <<data, candidate_args>>

\* One close() of the gather returns, or raises; return_exceptions = True
\* keeps the exception as a result.
CloseAllClose(s, ok) ==
    /\ manager.at = "gather"
    /\ s \in manager.pending
    /\ ok \/ MayFail
    /\ pc' = IF ok THEN [pc EXCEPT ![s] = ClosedPc(@)] ELSE pc
    /\ log' = Fault(s, ~ok)
    /\ manager' = [manager EXCEPT
                      !.pending = @ \ {s},
                      !.closed = IF ok THEN @ \cup {s} ELSE @,
                      !.raised = IF ok THEN @ ELSE @ \cup {s}]
    /\ UNCHANGED <<at, closed, cleanup_done, ice_gathering_complete, pcs,
                   websocket, message, handler, exc, turn>>
    /\ UNCHANGED <<environ, ice_servers_cache, ice_log>>
    /\ UNCHANGED <<data, candidate_args>>

\* The gather is done: self._pcs.clear(), and close_all returns.
CloseAllDone ==
    /\ manager.at = "gather"
    /\ manager.pending = {}
    /\ pcs' = {}
    /\ manager' = [manager EXCEPT !.at = "done"]
    /\ UNCHANGED <<at, pc, closed, cleanup_done, ice_gathering_complete,
                   websocket, message, handler, exc, turn, log>>
    /\ UNCHANGED <<environ, ice_servers_cache, ice_log>>
    /\ UNCHANGED <<data, candidate_args>>

----------------------------------------------------------------------------
\* Events of the peer connection.

Live(s) ==
    /\ pc[s].exists
    /\ pc[s].connectionState # "closed"
    /\ at[s] \notin {"created", "returned", "raised"}

\* The connection degrades to state "disconnected" or "failed"; the two
\* handlers on_iceconnectionstatechange and on_connectionstatechange only log.
ConnectivityStep(p, state) ==
    IF state = "failed"
      THEN [p EXCEPT !.connectionState = "failed",
                     !.iceConnectionState = "failed"]
      ELSE [p EXCEPT !.connectionState = "connected",
                     !.iceConnectionState = "disconnected"]

\* Mutant: on_connectionstatechange tells the client of the failure.
ConnectivityChange_notifies(s, state) ==
    /\ Live(s)
    /\ MayAct
    /\ pc[s].iceConnectionState \notin {state, "failed"}
    /\ pc' = [pc EXCEPT ![s] = ConnectivityStep(@, state)]
    /\ log' = [log EXCEPT ![s].connectivity = @ + 1]
    /\ websocket' = [websocket EXCEPT
                        ![s].written = @ (+)
                            SetToBag({OutFrame("error", NullCandidate)})]
    /\ UNCHANGED <<at, closed, cleanup_done, ice_gathering_complete, pcs,
                   message, handler, exc, turn>>
    /\ UNCHANGED <<manager, environ, ice_servers_cache, ice_log>>
    /\ UNCHANGED <<data, candidate_args>>

ConnectivityChange(s, state) ==
    /\ Live(s)
    /\ MayAct
    /\ pc[s].iceConnectionState \notin {state, "failed"}
    /\ pc' = [pc EXCEPT ![s] = ConnectivityStep(@, state)]
    /\ log' = [log EXCEPT ![s].connectivity = @ + 1]
    /\ UNCHANGED <<at, closed, cleanup_done, ice_gathering_complete, pcs,
                   websocket, message, handler, exc, turn>>
    /\ UNCHANGED <<manager, environ, ice_servers_cache, ice_log>>
    /\ UNCHANGED <<data, candidate_args>>

\* on_icegatheringstatechange with iceGatheringState "complete".
IceGatheringComplete(s) ==
    /\ Live(s)
    /\ pc[s].iceGatheringState = "gathering"
    /\ pc' = [pc EXCEPT ![s].iceGatheringState = "complete"]
    /\ ice_gathering_complete' = [ice_gathering_complete EXCEPT ![s] = TRUE]
    /\ UNCHANGED <<at, closed, cleanup_done, pcs, websocket, message,
                   handler, exc, turn, log>>
    /\ UNCHANGED <<manager, environ, ice_servers_cache, ice_log>>
    /\ UNCHANGED <<data, candidate_args>>

\* Mutant: on_icecandidate sends a frame for the null candidate too.
IceCandidate_null_sent(s, c, ok) ==
    /\ Live(s)
    /\ pc[s].iceGatheringState = "gathering"
    /\ MayAct
    /\ send_json(s, OutFrame("ice-candidate", c), ok)
    /\ log' = [log EXCEPT ![s].candidates = @ + 1,
                          ![s].send_failed = @ \/ SendFails(s, ok)]
    /\ UNCHANGED <<at, pc, cleanup_done, ice_gathering_complete, pcs,
                   message, handler, exc, turn>>
    /\ UNCHANGED <<manager, environ, ice_servers_cache, ice_log>>
    /\ UNCHANGED <<data, candidate_args>>

\* on_icecandidate: an event with a candidate sends one ice-candidate frame
\* made from it, an event whose candidate is None sends nothing.
IceCandidate(s, c, ok) ==
    /\ Live(s)
    /\ pc[s].iceGatheringState = "gathering"
    /\ MayAct
    /\ IF c = NullCandidate
         THEN /\ ok
              /\ UNCHANGED <<websocket, closed>>
              /\ log' = [log EXCEPT ![s].candidates = @ + 1]
         ELSE /\ send_json(s, OutFrame("ice-candidate", c), ok)
              /\ log' = [log EXCEPT ![s].candidates = @ + 1,
                                    ![s].send_failed = @ \/ SendFails(s, ok)]
    /\ UNCHANGED <<at, pc, cleanup_done, ice_gathering_complete, pcs,
                   message, handler, exc, turn>>
    /\ UNCHANGED <<manager, environ, ice_servers_cache, ice_log>>
    /\ UNCHANGED <<data, candidate_args>>

----------------------------------------------------------------------------
Outcomes == {"ok"} \cup PeerErrors

Next ==
    \/ CloseAll
    \/ \E s \in Sessions, ok \in BOOLEAN : CloseAllClose(s, ok)
    \/ CloseAllDone
    \/ \E s \in Sessions :
        \/ \E ok \in BOOLEAN : Run(s, ok)
        \/ \E f \in Frames : Receive(s, f)
        \/ \E e \in {"OSError", "WebSocketDisconnect"} : ReceiveError(s, e)
        \/ LoopCheck(s)
        \/ \E r \in Outcomes : SetRemoteDescription(s, r)
        \/ \E r \in Outcomes : CreateAnswer(s, r)
        \/ \E r \in Outcomes, g \in BOOLEAN : SetLocalDescription(s, r, g)
        \/ IceGatheringWaitDone(s)
        \/ IceGatheringTimeout(s)
        \/ \E ok \in BOOLEAN : SendAnswer(s, ok)
        \/ \E ok \in BOOLEAN : SendPong(s, ok)
        \/ \E ok \in BOOLEAN : AddIceCandidate(s, ok)
        \/ \E ok \in BOOLEAN : PcClose(s, ok)
        \/ \E ok \in BOOLEAN : WsClose(s, ok)
        \/ \E state \in {"disconnected", "failed"} :
              ConnectivityChange(s, state)
        \/ IceGatheringComplete(s)
        \/ \E c \in Candidates \cup {NullCandidate}, ok \in BOOLEAN :
              IceCandidate(s, c, ok)

Spec == Init /\ [][Next]_vars

----------------------------------------------------------------------------
\* build_ice_servers by itself: the process starts in any environment, the
\* function is called again and again, and the environment may change
\* between the calls.

BuildIceServers ==
    /\ ice_log.calls < MaxCalls
    /\ BuildCall
    /\ UNCHANGED <<at, pc, closed, cleanup_done, ice_gathering_complete, pcs,
                   websocket, message, handler, exc, turn, log, manager,
                   environ>>
    /\ UNCHANGED <<data, candidate_args>>

\* os.environ is changed while the process runs.
SetEnviron(env) ==
    /\ ice_log.calls < MaxCalls
    /\ env # environ
    /\ environ' = env
    /\ UNCHANGED <<at, pc, closed, cleanup_done, ice_gathering_complete, pcs,
                   websocket, message, handler, exc, turn, log, manager,
                   ice_servers_cache, ice_log>>
    /\ UNCHANGED <<data, candidate_args>>

IceInit == Started /\ environ \in Environs /\ data = NoData

IceNext ==
    \/ BuildIceServers
    \/ \E env \in Environs : SetEnviron(env)

IceSpec == IceInit /\ [][IceNext]_vars

----------------------------------------------------------------------------
\* The choice of sdp_mid and sdp_m_line_index by itself: a client sends one
\* ice-candidate frame after the other, each with a candidate line that
\* parses, and _handle_ice_candidate chooses the two values for each.

\* _handle_ice_candidate, lines 268-277.
SelectCandidateArgs ==
    /\ candidate_args = NoArgs
    /\ candidate_args' = select_candidate_args(data)
    /\ UNCHANGED <<at, pc, closed, cleanup_done, ice_gathering_complete, pcs,
                   websocket, message, handler, exc, turn, log, manager,
                   environ, ice_servers_cache, ice_log, data>>

\* The next ice-candidate frame arrives.
NextCandidateFrame(d) ==
    /\ candidate_args # NoArgs
    /\ data' = d
    /\ candidate_args' = NoArgs
    /\ UNCHANGED <<at, pc, closed, cleanup_done, ice_gathering_complete, pcs,
                   websocket, message, handler, exc, turn, log, manager,
                   environ, ice_servers_cache, ice_log>>

CandidateInit == Started /\ environ = NoEnviron /\ data \in Datas

CandidateNext ==
    \/ SelectCandidateArgs
    \/ \E d \in Datas : NextCandidateFrame(d)

CandidateSpec == CandidateInit /\ [][CandidateNext]_vars

\* What a session's task does once it is ready to go on: the event loop
\* runs a ready task, asyncio.wait_for returns at the latest when its
\* timeout expires, and an awaited call of the channel or of the peer
\* connection returns or raises.  No frame need ever arrive.
Progress(s) ==
    \/ LoopCheck(s)
    \/ \E r \in Outcomes : SetRemoteDescription(s, r)
    \/ \E r \in Outcomes : CreateAnswer(s, r)
    \/ \E r \in Outcomes, g \in BOOLEAN : SetLocalDescription(s, r, g)
    \/ IceGatheringWaitDone(s)
    \/ IceGatheringTimeout(s)
    \/ \E ok \in BOOLEAN : SendAnswer(s, ok)
    \/ \E ok \in BOOLEAN : SendPong(s, ok)
    \/ \E ok \in BOOLEAN : AddIceCandidate(s, ok)
    \/ \E ok \in BOOLEAN : PcClose(s, ok)
    \/ \E ok \in BOOLEAN : WsClose(s, ok)

\* The gather of close_all finishes: each close() returns or raises.
CloseAllProgress ==
    \/ \E s \in Sessions, ok \in BOOLEAN : CloseAllClose(s, ok)
    \/ CloseAllDone

FairSpec ==
    /\ Spec
    /\ \A s \in Sessions : WF_vars(Progress(s))
    /\ WF_vars(CloseAllProgress)

----------------------------------------------------------------------------
\* Vocabulary of the properties.

CleanupPlaces == {"pc_close", "ws_close"}
Ended(s) == at[s] \in {"returned", "raised"}
\* run got as far as its receive loop.
LoopEntered(s) == at[s] # "created" /\ exc[s] # "SetupError"
PcClosed(s) == pc[s].exists /\ pc[s].connectionState = "closed"
\* The number of frames of a type that send_text has accepted.
Written(s, type) ==
    LET b == websocket[s].written
    IN  BagCardinality([f \in {g \in DOMAIN b : g.type = type} |-> b[f]])

\* Frames _handle_message has no handler for: text that is no JSON, and
\* objects whose type is absent or a string outside the dispatch table.
Unhandled(f) ==
    \/ f.shape = "text"
    \/ f.shape = "object" /\ f.type \in {"pong", "answer", "other", "missing"}

\* Where the task is while _handle_offer runs.
OfferPlaces == {"set_remote", "create_answer", "set_local", "ice_wait",
                "send_answer"}
\* Where the task is while any handler runs.
HandlerPlaces == OfferPlaces \cup {"send_pong", "add_candidate"}

\* Frames of a handled type that the type's schema rejects.
SchemaViolation(f) ==
    f.shape = "object" /\ f.body \in {"nosdp", "badindex"}

----------------------------------------------------------------------------
\* C1: a registered peer connection is in the registry as long as its
\* session's cleanup has not run, and out of it once cleanup has run to its
\* end; so the registry is empty once both sessions have ended after a bye.
\* (While close_all has not been called: it empties the registry itself.)
C1_RegistryIffCleanupNotRun ==
    \A s \in Sessions :
        pc[s].exists /\ manager.at = "idle" =>
            /\ ~cleanup_done[s] => s \in pcs
            /\ cleanup_done[s] /\ Ended(s) => s \notin pcs

\* C2: when run has returned, the peer connection is closed and out of the
\* registry, and close has been called on the signaling channel (by the
\* session itself: close_all has not been called).
C2_ReturnReleasesAll ==
    \A s \in Sessions :
        at[s] = "returned" /\ manager.at = "idle" =>
            /\ PcClosed(s)
            /\ s \notin pcs
            /\ log[s].ws_close >= 1

\* C3: once a session that entered its receive loop has ended, each effect
\* of cleanup has been performed exactly once: the peer connection closed,
\* deregistered, and the signaling channel closed (by the session itself:
\* close_all has not been called).
C3_CleanupEffectsOnce ==
    \A s \in Sessions :
        LoopEntered(s) /\ Ended(s) /\ manager.at = "idle" =>
            /\ log[s].pc_close = 1
            /\ s \notin pcs
            /\ log[s].ws_close = 1

\* C4: an answer frame is handed to the channel only in an iteration whose
\* offer had its remote and its local description set; an iteration in
\* which one of them failed sends no answer.
C4_AnswerOnlyAfterDescriptions ==
    \A s \in Sessions :
        /\ at[s] = "send_answer" \/ turn[s].answer_sends > 0 =>
              /\ turn[s].negotiated
              /\ pc[s].remoteDescription
              /\ pc[s].localDescription
        /\ Written(s, "answer") > 0 =>
              pc[s].remoteDescription /\ pc[s].localDescription

C4_AnswerSent ==
    \E s \in Sessions :
        /\ turn[s].answer_sends = 1
        /\ turn[s].negotiated
        /\ Written(s, "answer") = 1

\* C5: an offer whose descriptions are set is always followed by the send
\* of exactly one answer, whether gathering completes or the wait times
\* out; the send puts one answer frame on the channel unless send_text
\* raises.
C5_AnswerAlwaysSent ==
    /\ \A s \in Sessions :
        /\ [](turn[s].answer_sends <= 1)
        /\ turn[s].negotiated ~> turn[s].answer_sends = 1
    /\ [][\A s \in Sessions :
            turn'[s].answer_sends = turn[s].answer_sends + 1 =>
                \/ Written(s, "answer")' = Written(s, "answer") + 1
                \/ closed'[s] /\ log'[s].send_failed]_vars

\* The answer went out after the wait timed out: the latch is still unset.
C5_AnswerAfterTimeout ==
    \E s \in Sessions :
        /\ turn[s].answer_sends = 1
        /\ Written(s, "answer") = 1
        /\ ~ice_gathering_complete[s]
        /\ pc[s].iceGatheringState = "gathering"

\* C6: once _handle_bye has returned the session takes no further frame
\* from the channel, its next step from the head of the loop is into
\* cleanup, and it ends.
C6_ByeEndsSession ==
    /\ [][\A s \in Sessions :
             log[s].bye =>
                 /\ websocket'[s].received = websocket[s].received
                 /\ at[s] = "loop" /\ at'[s] # "loop" =>
                        cleanup_done'[s] /\ at'[s] \in CleanupPlaces]_vars
    /\ \A s \in Sessions : log[s].bye ~> Ended(s)

\* The session has ended after a bye while the client could deliver more.
C6_ByeWithFramesLeft ==
    \E s \in Sessions :
        /\ log[s].bye
        /\ Ended(s)
        /\ cleanup_done[s]
        /\ MayAct

\* C7: a frame that violates the schema of its type is dropped: the flag
\* closed stays unset, cleanup does not run and the session is back at the
\* head of its loop.
C7_SchemaViolationDropped ==
    [][\A s \in Sessions, f \in Frames :
          SchemaViolation(f) /\ Receive(s, f) =>
              /\ closed'[s] = closed[s]
              /\ ~cleanup_done'[s]
              /\ at'[s] = "loop"]_vars

\* C8: an exception raised inside a message handler is logged and the
\* session goes on: the loop is not left and cleanup does not run.
C8_HandlerExceptionSurvived ==
    [][\A s \in Sessions :
          at[s] \in {"set_remote", "create_answer", "set_local"} =>
              ~cleanup_done'[s] /\ at'[s] \notin CleanupPlaces]_vars

C10_FailedSendCloses ==
    /\ [](\A s \in Sessions : log[s].send_failed => closed[s])
    /\ [][\A s \in Sessions :
             closed[s] /\ at[s] = "loop" /\ at'[s] # "loop" =>
                 cleanup_done'[s] /\ at'[s] \in CleanupPlaces]_vars

\* The send of a candidate failed while the loop waited for a frame, and
\* the session went into cleanup after the next frame.
C10_CallbackSendFailed ==
    \E s \in Sessions :
        /\ log[s].send_failed
        /\ log[s].candidates = 1
        /\ Written(s, "ice-candidate") = 0
        /\ websocket[s].received = 2
        /\ ~log[s].bye
        /\ exc[s] = "none"
        /\ cleanup_done[s]

\* C11: a session whose peer connection close_all has closed does not go
\* back to receive_text once it is at the head of its loop, and it ends up
\* in cleanup.
C11_CloseAllUnwinds ==
    /\ [][\A s \in Sessions :
             s \in manager.closed /\ at[s] = "loop" /\ at'[s] # "loop" =>
                 at'[s] \in CleanupPlaces]_vars
    /\ \A s \in Sessions :
          (s \in manager.closed /\ LoopEntered(s)) ~> cleanup_done[s]

\* C15: close_all takes every member of the registry at the call, runs the
\* close() of each of them whether or not another one raised, returns, and
\* leaves the registry empty.
C15_CloseAllClosesAndClears ==
    /\ [][manager.at = "idle" /\ manager'.at = "gather" =>
              manager'.pending = pcs]_vars
    /\ [][manager.at # "done" /\ manager'.at = "done" => pcs' = {}]_vars
    /\ [](manager.at = "done" => manager.pending = {})
    /\ [](\A s \in manager.closed : PcClosed(s))
    /\ manager.at = "gather" ~> manager.at = "done"

\* close_all has returned after the close() of one member raised and the
\* close() of the other returned.
C15_OneCloseRaised ==
    /\ manager.at = "done"
    /\ manager.raised # {}
    /\ manager.closed # {}
    /\ pcs = {}

\* C12: an icecandidate event with a candidate puts exactly one frame on
\* the channel, an ice-candidate frame with the candidate line, sdpMid and
\* sdpMLineIndex of the event, unless send_text raises; an event whose
\* candidate is None puts none.
C12_CandidateFrames ==
    /\ [][\A s \in Sessions, c \in Candidates \cup {NullCandidate},
             ok \in BOOLEAN :
             IceCandidate(s, c, ok) =>
                 LET before == websocket[s].written
                     after == websocket'[s].written
                 IN  IF c = NullCandidate
                       THEN after = before
                       ELSE \/ after = before (+)
                                   SetToBag({[type |-> "ice-candidate",
                                              candidate |-> c.candidate,
                                              sdp_mid |-> c.sdpMid,
                                              sdp_m_line_index |->
                                                  c.sdpMLineIndex]})
                            \/ /\ after = before
                               /\ closed'[s]
                               /\ log'[s].send_failed]_vars
    /\ [](\A s \in Sessions :
             /\ Written(s, "ice-candidate") <= log[s].candidates
             /\ \A f \in BagToSet(websocket[s].written) :
                   f.type = "ice-candidate" => f.candidate # "-")

\* A session has had an event without candidate and one with the second
\* candidate, and has written the frame of the second candidate only.
C12_SecondCandidateWritten ==
    \E s \in Sessions :
        /\ log[s].candidates = 2
        /\ ~log[s].send_failed
        /\ BagToSet(websocket[s].written) =
               {[type |-> "answer", candidate |-> "-", sdp_mid |-> "-",
                 sdp_m_line_index |-> "-"],
                [type |-> "ice-candidate", candidate |-> "candidate:2",
                 sdp_mid |-> "video", sdp_m_line_index |-> "1"]}
        /\ Written(s, "ice-candidate") = 1

\* C13: a dispatched ping is answered: the handler writes exactly one pong
\* frame, unless send_text raises, and nothing else, and the session is
\* back at the head of its loop; a session that ends after a bye has run
\* cleanup once.
C13_PingOnePong ==
    /\ [][\A s \in Sessions :
             LET before == websocket[s].written
                 after == websocket'[s].written
                 pong == [type |-> "pong", candidate |-> "-",
                          sdp_mid |-> "-", sdp_m_line_index |-> "-"]
             IN  /\ Receive(s, Obj("ping", "none")) =>
                        at'[s] = "send_pong" /\ after = before
                 /\ at[s] = "send_pong" /\ at'[s] # "send_pong" =>
                        /\ at'[s] = "loop"
                        /\ \/ after = before (+) SetToBag({pong})
                           \/ /\ after = before
                              /\ closed'[s]
                              /\ log'[s].send_failed]_vars
    /\ [](\A s \in Sessions :
             at[s] = "send_pong" => message[s] = Obj("ping", "none"))
    /\ [](\A s \in Sessions :
             log[s].bye /\ Ended(s) =>
                 /\ cleanup_done[s]
                 /\ log[s].ws_close = 1
                 /\ log[s].pc_close <= 1)
    /\ \A s \in Sessions : at[s] = "send_pong" ~> at[s] = "loop"

\* A ping, then a bye: one pong is all the session wrote, and the session
\* has returned after one cleanup.
C13_PingThenBye ==
    \E s \in Sessions :
        /\ websocket[s].received = 2
        /\ log[s].bye
        /\ at[s] = "returned"
        /\ Written(s, "pong") = 1
        /\ BagCardinality(websocket[s].written) = 1
        /\ cleanup_done[s]
        /\ log[s].pc_close = 1
        /\ log[s].ws_close = 1

\* C14: every frame on the channel is an answer, an ice-candidate or a
\* pong, and a step that changes the connection state, the ICE connection
\* state or the ICE gathering state of a peer connection writes no frame.
C14_OnlyThreeFrameTypes ==
    /\ [](\A s \in Sessions :
             \A f \in BagToSet(websocket[s].written) :
                 f.type \in {"answer", "ice-candidate", "pong"})
    /\ [][\A s \in Sessions :
             \/ pc'[s].connectionState # pc[s].connectionState
             \/ pc'[s].iceConnectionState # pc[s].iceConnectionState
             \/ pc'[s].iceGatheringState # pc[s].iceGatheringState
             => websocket'[s].written = websocket[s].written]_vars

\* A session has written one frame of each of the three types, and the
\* gathering state of its connection has gone on to "complete".
C14_ThreeTypesWritten ==
    \E s \in Sessions :
        /\ Written(s, "answer") = 1
        /\ Written(s, "ice-candidate") = 1
        /\ Written(s, "pong") = 1
        /\ BagCardinality(websocket[s].written) = 3
        /\ pc[s].iceGatheringState = "complete"

\* C16: however often build_ice_servers is called, the list is constructed
\* exactly once, by the first call; every later call returns the list of
\* the first and reads nothing from the environment.
C16_IceServersBuiltOnce ==
    /\ [](ice_log.constructed = IF ice_log.calls = 0 THEN 0 ELSE 1)
    /\ [](ice_log.calls > 0 =>
             ice_log.result = 1 /\ ice_servers_cache.id = 1)
    /\ [][ice_log.calls > 0 /\ ice_log'.calls > ice_log.calls =>
              /\ ice_servers_cache' = ice_servers_cache
              /\ ice_log'.env_reads = ice_log.env_reads]_vars

\* The function has been called MaxCalls times, and the environment has
\* changed since the first call: a fresh list would differ from the one
\* in the cache.
C16_CachedAcrossCalls ==
    /\ ice_log.calls = MaxCalls
    /\ ice_log.constructed = 1
    /\ ice_servers_cache.servers # FreshServers(environ)

\* C17: outside dev mode the first call builds the STUN server plus a TURN
\* descriptor when TURN_URLS, TURN_USERNAME and TURN_CREDENTIAL are all
\* set and not empty, and the STUN server alone otherwise.
C17_TurnOnlyWhenAllPresent ==
    [][ice_log.calls = 0 /\ ice_log'.calls = 1
          /\ environ.WEBRTC_ICE_MODE # Str(<<"dev">>) =>
          /\ ice_servers_cache'.servers[1] = StunServer
          /\ Len(ice_servers_cache'.servers) =
                IF Truthy(environ.TURN_URLS) /\ Truthy(environ.TURN_USERNAME)
                   /\ Truthy(environ.TURN_CREDENTIAL)
                  THEN 2 ELSE 1]_vars

\* C18: a session takes a frame from the channel only while it waits in
\* receive_text, one frame at a time; while a handler runs, and through
\* all the steps of _handle_offer, the frame being handled stays the
\* session's frame and no other frame is taken.
C18_OneFrameAtATime ==
    /\ [][\A s \in Sessions :
             /\ websocket'[s].received # websocket[s].received =>
                    /\ at[s] = "recv"
                    /\ websocket'[s].received = websocket[s].received + 1
             /\ at[s] \in HandlerPlaces =>
                    /\ websocket'[s].received = websocket[s].received
                    /\ message'[s] = message[s] \/ at'[s] \in CleanupPlaces
                    /\ at'[s] \in HandlerPlaces \cup CleanupPlaces \cup {"loop"}
             /\ at[s] = "set_remote" =>
                    at'[s] \in {"set_remote", "create_answer"}
                                 \cup CleanupPlaces
             /\ at[s] = "create_answer" =>
                    at'[s] \in {"create_answer", "set_local"}
                                 \cup CleanupPlaces
             /\ at[s] = "set_local" =>
                    at'[s] \in {"set_local", "ice_wait", "send_answer"}
                                 \cup CleanupPlaces
             /\ at[s] = "ice_wait" => at'[s] \in {"ice_wait", "send_answer"}
             /\ at[s] = "send_answer" => at'[s] \in {"send_answer", "loop"}]_vars
    /\ [](\A s \in Sessions :
             /\ at[s] \in OfferPlaces => message[s].type = "offer"
             /\ at[s] \in HandlerPlaces => handler[s] = message[s].type)

\* The frame after an offer is being handled: the answer to the offer is
\* on the channel already.
C18_FrameAfterOffer ==
    \E s \in Sessions :
        /\ websocket[s].received = 2
        /\ Written(s, "answer") = 1
        /\ message[s] = Obj("ping", "none")
        /\ at[s] = "send_pong"

\* C19: an ice-candidate frame that arrives while iceConnectionState is
\* closed, failed or disconnected is ignored, whatever it holds:
\* addIceCandidate is not called, nothing is written, nothing is raised and
\* the session stays open at the head of its loop.
C19_CandidateIgnoredWhenDown ==
    [][\A s \in Sessions, f \in IceFrames :
          /\ pc[s].iceConnectionState \in {"closed", "failed", "disconnected"}
          /\ Receive(s, f)
          => /\ at'[s] = "loop"
             /\ exc'[s] = "none"
             /\ ~cleanup_done'[s]
             /\ closed'[s] = closed[s]
             /\ websocket'[s].written = websocket[s].written
             /\ pc'[s] = pc[s]]_vars

\* A frame with a candidate and a bad sdp_m_line_index has been ignored on
\* a disconnected connection, and the session is at the head of its loop.
C19_IgnoredWhileDisconnected ==
    \E s \in Sessions :
        /\ at[s] = "loop"
        /\ ~closed[s]
        /\ exc[s] = "none"
        /\ message[s] = Obj("ice-candidate", "badindex")
        /\ pc[s].iceConnectionState = "disconnected"

\* C20: an ice-candidate frame whose candidate line is too short, has no
\* ":" in its first token or has a component, priority or port that is no
\* integer is dropped: addIceCandidate is not called, nothing is written or
\* raised and the session stays open; and addIceCandidate raising ends
\* the handler, not the session.
C20_MalformedCandidateDropped ==
    [][\A s \in Sessions :
          /\ \A b \in {"short", "noprefix", "badcomp", "badprio", "badnum"} :
                Receive(s, Obj("ice-candidate", b)) =>
                    /\ at'[s] = "loop"
                    /\ exc'[s] = "none"
                    /\ ~cleanup_done'[s]
                    /\ closed'[s] = closed[s]
                    /\ websocket'[s].written = websocket[s].written
                    /\ pc'[s] = pc[s]
          /\ at[s] = "add_candidate" /\ at'[s] # "add_candidate" =>
                    /\ at'[s] = "loop"
                    /\ exc'[s] = "none"
                    /\ ~cleanup_done'[s]
                    /\ closed'[s] = closed[s]
                    /\ websocket'[s].written = websocket[s].written]_vars

\* On a connection that takes candidates, a line without ":" has been
\* dropped after addIceCandidate had raised for the frame before it.
C20_DroppedAfterFailedAdd ==
    \E s \in Sessions :
        /\ websocket[s].received = 2
        /\ log[s].faults = 1
        /\ message[s] = Obj("ice-candidate", "noprefix")
        /\ at[s] = "loop"
        /\ pc[s].iceConnectionState = "new"
        /\ manager.at = "idle"
        /\ ~closed[s]
        /\ exc[s] = "none"

\* Frames that are JSON but no object, and objects whose type value is no
\* string.
NotAnObjectOrType(f) ==
    \/ f.shape = "array"
    \/ f.shape = "object" /\ f.type \in {"list", "int"}

\* C22: a frame that is JSON but no object, or an object whose type value
\* is no string, is dropped like a malformed frame: nothing is raised,
\* cleanup does not run, nothing is written, the flag closed is unchanged
\* and the session is back at the head of its loop for the next frame.
C22_NonObjectFrameDropped ==
    [][\A s \in Sessions, f \in Frames :
          NotAnObjectOrType(f) /\ Receive(s, f) =>
              /\ at'[s] = "loop"
              /\ exc'[s] = "none"
              /\ ~cleanup_done'[s]
              /\ closed'[s] = closed[s]
              /\ websocket'[s].written = websocket[s].written]_vars

\* C23: when run has ended, by return or by exception, the peer connection
\* it registered has been released by the session's cleanup: cleanup has
\* run, and the peer connection is out of the registry; this holds too
\* when the setup fails between the registration and the receive loop.
\* (While close_all has not been called: it empties the registry itself.)
C23_RegisteredIsReleased ==
    \A s \in Sessions :
        Ended(s) /\ pc[s].exists /\ manager.at = "idle" =>
            /\ cleanup_done[s]
            /\ s \notin pcs

\* C24: every peer connection that the final clear of close_all takes out
\* of the registry has had its close() run by close_all, whatever the
\* sessions did while close_all awaited the gather.
C24_ClearedWereClosed ==
    [][manager.at # "done" /\ manager'.at = "done" =>
          \A s \in pcs \ pcs' : s \in manager.closed \cup manager.raised]_vars

\* The session hands a frame to send_text: _send_json is called by
\* _handle_offer, by _handle_ping and by on_icecandidate for a candidate.
SendAttempt(s) ==
    \/ \E ok \in BOOLEAN : SendAnswer(s, ok)
    \/ \E ok \in BOOLEAN : SendPong(s, ok)
    \/ \E c \in Candidates, ok \in BOOLEAN : IceCandidate(s, c, ok)

\* C25: once the flag closed of a session is set, or the session's channel
\* is closed, the session hands no frame to send_text any more: neither a
\* handler nor an icecandidate event, which may come while cleanup awaits
\* the close of the peer connection, attempts a write.
C25_NoSendOnceClosed ==
    [][\A s \in Sessions :
          closed[s] \/ websocket[s].state = "closed" => ~SendAttempt(s)]_vars

\* C21: the sdp_mid and the sdp_m_line_index passed on with a candidate are
\* each the first value that is present (not None) among the parsed
\* message's, the object's under the snake_case key and the object's under
\* the camelCase key; an empty sdp_mid and an index 0 are present, and are
\* not replaced by the value of a later source.
C21_PreferredSourceWins ==
    [][candidate_args = NoArgs /\ candidate_args' # NoArgs =>
          LET FirstPresent(a, b, c) ==
                  IF a # None THEN a ELSE IF b # None THEN b ELSE c
          IN  /\ candidate_args'.sdp_mid =
                    FirstPresent(IceCandidateMessage(data).sdp_mid,
                                 get(data, "sdp_mid"), get(data, "sdpMid"))
              /\ candidate_args'.sdp_m_line_index =
                    FirstPresent(IceCandidateMessage(data).sdp_m_line_index,
                                 get(data, "sdp_m_line_index"),
                                 get(data, "sdpMLineIndex"))]_vars

====
